---- MODULE Spec2Model ----
(***************************************************************************)
(* Movie post ranking demo (src/app.py): the scoring functions             *)
(* calculate_emoji_sentiment, check_movie_relevance, calculate_post_score   *)
(* and the Streamlit script that holds the post collection in              *)
(* st.session_state.posts and re-runs top to bottom on every UI event.     *)
(*                                                                         *)
(* Numbers.  The code computes in binary floating point; the model uses    *)
(* exact decimal fixed point:                                              *)
(*   emoji weights and polarity in tenths, relevance in hundredths,        *)
(*   raw_score in thousandths (RawMilli), decay in ten-thousandths         *)
(*   (DecayE4), the returned score in tenths (round(x, 1) * 10).           *)
(* A text is the sequence of its Unicode code points (what iterating a     *)
(* Python str yields); printable ASCII is written as itself, every other   *)
(* code point as "U+XXXX".  Time is counted in whole hours.                *)
(***************************************************************************)
EXTENDS Integers, Sequences, FiniteSets, TLC

VARIABLES
  \* pure-function harness for the two text extractors
  text, emoji_out, relevance_out,
  \* pure-function harness for calculate_post_score
  post, clock, tie_up, score_out, prev_score, last_op,
  \* the Streamlit session
  posts, now, sort_option, filter_option, shown, events, run, last_event

text_vars  == <<text, emoji_out, relevance_out>>
score_vars == <<post, clock, tie_up, score_out, prev_score, last_op>>
app_vars   == <<posts, now, sort_option, filter_option, shown, events, run, last_event>>
vars       == <<text_vars, score_vars, app_vars>>

Min(a, b) == IF a <= b THEN a ELSE b
Max(a, b) == IF a >= b THEN a ELSE b

RECURSIVE SumSeq(_)
SumSeq(s) == IF s = <<>> THEN 0 ELSE Head(s) + SumSeq(Tail(s))

RECURSIVE Concat(_)
Concat(ss) == IF ss = <<>> THEN <<>> ELSE Head(ss) \o Concat(Tail(ss))

(***************************************************************************)
(* str.lower() on the cased letters the model's texts use                  *)
(***************************************************************************)
UpperLetters == <<"A", "B", "C", "D", "E", "F", "G", "H", "I", "J", "K", "L", "M",
                  "N", "O", "P", "Q", "R", "S", "T", "U", "V", "W", "X", "Y", "Z">>
LowerLetters == <<"a", "b", "c", "d", "e", "f", "g", "h", "i", "j", "k", "l", "m",
                  "n", "o", "p", "q", "r", "s", "t", "u", "v", "w", "x", "y", "z">>

LowerChar(c) ==
  IF \E i \in 1..Len(UpperLetters) : UpperLetters[i] = c
  THEN LowerLetters[CHOOSE i \in 1..Len(UpperLetters) : UpperLetters[i] = c]
  ELSE c

lower(t) == [i \in 1..Len(t) |-> LowerChar(t[i])]

(***************************************************************************)
(* needle in hay, for Python str: hay has a slice equal to needle          *)
(***************************************************************************)
StrIn(needle, hay) ==
  \E i \in 0..(Len(hay) - Len(needle)) : SubSeq(hay, i + 1, i + Len(needle)) = needle

(***************************************************************************)
(* calculate_emoji_sentiment                                               *)
(***************************************************************************)
\* dict literal: <<key, weight in tenths>>; the first key is two code points
emoji_sentiment_map ==
  <<  <<<<"U+2764", "U+FE0F">>, 3>>,
    <<<<"U+1F44C">>, 3>>,
    <<<<"U+1F44D">>, 2>>,
    <<<<"U+1F60D">>, 3>>,
    <<<<"U+1F525">>, 2>>,
    <<<<"U+1F389">>, 2>>,
    <<<<"U+1F929">>, 3>>,
    <<<<"U+1F64C">>, 2>>,
    <<<<"U+1F4AF">>, 3>>,
    <<<<"U+1F60A">>, 2>>,
    <<<<"U+1F44E">>, -3>>,
    <<<<"U+1F612">>, -2>>,
    <<<<"U+1F494">>, -3>>,
    <<<<"U+1F620">>, -3>>,
    <<<<"U+1F92E">>, -4>>,
    <<<<"U+1F624">>, -2>>,
    <<<<"U+1F611">>, -1>>,
    <<<<"U+1F644">>, -2>> >>

\* emoji.EMOJI_DATA restricted to the code points the model's texts use:
\* single-code-point emoji, the bare heart U+2764 and the male sign U+2642
\* (both listed by the library as unqualified forms).  U+FE0F (variation
\* selector) and U+200D (joiner) are not emoji on their own.
EMOJI_DATA ==
  { "U+2764", "U+1F44C", "U+1F44D", "U+1F60D", "U+1F525", "U+1F389", "U+1F929",
    "U+1F64C", "U+1F4AF", "U+1F60A", "U+1F44E", "U+1F612", "U+1F494", "U+1F620",
    "U+1F92E", "U+1F624", "U+1F611", "U+1F644", "U+1F44F", "U+1F937", "U+2642" }

\* emoji_sentiment_map.get(e, 0) for a str e
MapGet(e) ==
  IF \E i \in 1..Len(emoji_sentiment_map) : emoji_sentiment_map[i][1] = e
  THEN emoji_sentiment_map[CHOOSE i \in 1..Len(emoji_sentiment_map) :
                             emoji_sentiment_map[i][1] = e][2]
  ELSE 0

IsEmojiChar(c) == c \in EMOJI_DATA

\* tenths; each c below is one code point, looked up as the one-character str <<c>>
calculate_emoji_sentiment(t) ==
  LET emojis      == SelectSeq(t, IsEmojiChar)
      total_score == SumSeq([i \in 1..Len(emojis) |-> MapGet(<<emojis[i]>>)])
  IN  Max(-5, Min(5, total_score))

(***************************************************************************)
(* check_movie_relevance                                                   *)
(***************************************************************************)
english_terms ==
  <<  <<"m", "o", "v", "i", "e">>,
    <<"f", "i", "l", "m">>,
    <<"c", "i", "n", "e", "m", "a">>,
    <<"b", "o", "l", "l", "y", "w", "o", "o", "d">>,
    <<"h", "o", "l", "l", "y", "w", "o", "o", "d">>,
    <<"w", "a", "t", "c", "h">>,
    <<"r", "e", "v", "i", "e", "w">>,
    <<"a", "c", "t", "o", "r">>,
    <<"a", "c", "t", "r", "e", "s", "s">>,
    <<"d", "i", "r", "e", "c", "t", "o", "r">>,
    <<"s", "c", "e", "n", "e">>,
    <<"e", "n", "d", "i", "n", "g">>,
    <<"p", "l", "o", "t">>,
    <<"s", "t", "o", "r", "y">>,
    <<"s", "c", "r", "e", "e", "n", "p", "l", "a", "y">> >>

hinglish_phrases ==
  <<  <<"p", "a", "i", "s", "a", " ", "v", "a", "s", "o", "o", "l">>,
    <<"t", "i", "m", "e", " ", "p", "a", "s", "s">>,
    <<"m", "i", "n", "d", " ", "b", "l", "o", "w", "i", "n", "g">>,
    <<"m", "u", "s", "t", " ", "w", "a", "t", "c", "h">>,
    <<"m", "a", "t", " ", "d", "e", "k", "h", "o">>,
    <<"b", "a", "k", "w", "a", "s", " ", "m", "o", "v", "i", "e">>,
    <<"h", "i", "t", " ", "h", "a", "i">>,
    <<"f", "l", "o", "p", " ", "h", "a", "i">>,
    <<"t", "i", "m", "e", " ", "w", "a", "s", "t", "e">> >>

\* mutant of check_movie_relevance: one point per occurrence instead of one per entry
check_movie_relevance_per_occurrence(t) ==
  LET text_lower == lower(t)
      Count(e)   == Cardinality({ i \in 0..(Len(text_lower) - Len(e)) :
                                    SubSeq(text_lower, i + 1, i + Len(e)) = e })
      term_matches ==
        SumSeq([i \in 1..Len(english_terms) |-> Count(english_terms[i])])
        + SumSeq([i \in 1..Len(hinglish_phrases) |-> Count(hinglish_phrases[i])])
  IN  Min(100, 20 + term_matches * 15)

\* hundredths
check_movie_relevance(t) ==
  LET text_lower   == lower(t)
      term_matches ==
        SumSeq([i \in 1..Len(english_terms) |->
                  IF StrIn(english_terms[i], text_lower) THEN 1 ELSE 0])
        + SumSeq([i \in 1..Len(hinglish_phrases) |->
                  IF StrIn(hinglish_phrases[i], text_lower) THEN 1 ELSE 0])
  IN  Min(100, 20 + term_matches * 15)

(***************************************************************************)
(* calculate_post_score                                                    *)
(*                                                                         *)
(* A post is the dict of the code plus one field the code does not store:  *)
(* polarity, the answer TextBlob(text).sentiment.polarity gives for the    *)
(* post's text (an external estimator; tenths, -10..10).                   *)
(***************************************************************************)
TextBest ==
  Concat(<< <<"b", "e", "s", "t", " ">>,
            <<"m", "u", "s", "t", " ", "w", "a", "t", "c", "h", " ">>,
            <<"b", "a", "k", "w", "a", "s", " ", "m", "o", "v", "i", "e", " ">>,
            <<"F", "i", "l", "m", " ", "P", "l", "o", "t", " ">>,
            <<"U+1F44C">>, <<"U+1F525">> >>)

TextWorst == <<"U+1F92E", "U+1F92E">>

ScoreTexts == { <<>>, <<"z", "z", " ">>, TextWorst, TextBest }

\* the texts of the four hardcoded sample posts
SampleText1 ==
  << "K", "G", "F", " ", "2", " ", "i", "s", " ", "p", "a", "i",
     "s", "a", " ", "v", "a", "s", "o", "o", "l", "!", " ", "B",
     "e", "s", "t", " ", "a", "c", "t", "i", "o", "n", " ", "i",
     "n", " ", "I", "n", "d", "i", "a", "n", " ", "c", "i", "n",
     "e", "m", "a", " ", "U+1F525" >>

SampleText2 ==
  << "P", "a", "t", "h", "a", "a", "n", " ", "w", "a", "s", " ",
     "t", "i", "m", "e", "p", "a", "s", "s", " ", "b", "u", "t",
     " ", "t", "o", "o", " ", "m", "u", "c", "h", " ", "d", "r",
     "a", "m", "a", " ", "U+1F612" >>

SampleText3 ==
  << "R", "R", "R", " ", "d", "e", "s", "e", "r", "v", "e", "s",
     " ", "a", "l", "l", " ", "t", "h", "e", " ", "i", "n", "t",
     "e", "r", "n", "a", "t", "i", "o", "n", "a", "l", " ", "a",
     "w", "a", "r", "d", "s", " ", "U+1F44F", "U+1F44C" >>

SampleText4 ==
  << "J", "u", "s", "t", " ", "w", "a", "t", "c", "h", "e", "d",
     " ", "A", "v", "a", "t", "a", "r", " ", "2", " ", "-", " ",
     "v", "i", "s", "u", "a", "l", "s", " ", "a", "r", "e", " ",
     "m", "i", "n", "d", "-", "b", "l", "o", "w", "i", "n", "g",
     " ", "b", "u", "t", " ", "s", "t", "o", "r", "y", " ", "i",
     "s", " ", "w", "e", "a", "k", " ", "U+1F937", "U+200D", "U+2642", "U+FE0F" >>

SampleTexts == { SampleText1, SampleText2, SampleText3, SampleText4 }

PostTexts == ScoreTexts \cup SampleTexts

\* calculate_emoji_sentiment(post["text"]) and check_movie_relevance(post["text"])
\* for the texts posts carry in the harness and in the session, evaluated once
EmojiOf     == [t \in PostTexts |-> calculate_emoji_sentiment(t)]
RelevanceOf == [t \in PostTexts |-> check_movie_relevance(t)]

LIKE_NORM == 250
COMMENT_NORM == 30
MEDIA_NORM == 4

\* min(value / norm, 1.0), in 1/1500 (every norm used divides 1500)
Ratio(value, norm) == Min((value * 1500) \div norm, 1500)

\* mutant of engagement: the comments term subtracted
engagement_minus_comments(p) ==
  6 * Ratio(p.likes, LIKE_NORM) - 4 * Ratio(p.comments, COMMENT_NORM)

\* 0.6 * min(likes / LIKE_NORM, 1.0) + 0.4 * min(comments / COMMENT_NORM, 1.0), in 1/15000
engagement(p) == 6 * Ratio(p.likes, LIKE_NORM) + 4 * Ratio(p.comments, COMMENT_NORM)

\* mutant of combined_sentiment: the blend with length_bonus left out
combined_sentiment_unblended(p) ==
  (p.polarity + EmojiOf[p.text] + 10) * 750

\* the second assignment to combined_sentiment, in 1/15000
combined_sentiment(p) ==
  LET length_bonus == Ratio(Len(p.text), 10)
      sentiment    == p.polarity
      emoji_score  == EmojiOf[p.text]
      \* (sentiment + emoji_score + 1) / 2, in 1/1500
      combined     == (sentiment + emoji_score + 10) * 75
  IN  7 * combined + 3 * length_bonus

\* 0.7 * combined_sentiment + 0.1 * movie_mentioned_score + 0.2 * media_boost, in 1/150000
content(p) ==
  LET movie_mentioned_score == RelevanceOf[p.text]
      media_boost           == Ratio(p.media_count, MEDIA_NORM)
  IN  7 * combined_sentiment(p) + 150 * movie_mentioned_score + 20 * media_boost

\* in 1/15000
author(p) ==
    4 * Ratio(p.author_content_watched, 100)
  + 3 * Ratio(p.author_reviews_posted, 100)
  + 3 * Ratio(p.author_public_watchlists, 5)

\* (0.6 * engagement + 0.3 * content + 0.1 * author) * 100, in thousandths
\* (the sum below is in 1/15000 and is always a multiple of 15)
raw_score(p) == (60 * engagement(p) + 3 * content(p) + 10 * author(p)) \div 15

hours_old(p, t) == t - p.created_at

(***************************************************************************)
(* decay = 0.5 ** (hours_old / (48 * decay_factor)) with                   *)
(* decay_factor = 1 + math.log(1 + likes / 100): the value of that         *)
(* expression times 10^6, rounded to the nearest integer, tabulated for    *)
(* the likes (rows, DecayLikes) and ages in hours (columns, DecayHours)    *)
(* the model uses.  The entries for likes = 0 at ages that are multiples   *)
(* of 48 (2, 1, 1/2, 1/4) are exact.                                       *)
(***************************************************************************)
DecayLikes ==
  << 0, 1, 2, 3, 4, 5, 8, 9, 10, 11, 12, 13,
     17, 18, 19, 20, 21, 22, 23, 24, 25, 26, 250, 400 >>

DecayHours ==
  << -48, -24, 0, 12, 24, 36, 42, 48, 54, 60, 62, 66,
     72, 74, 78, 84, 86, 90, 96, 98, 108, 110, 120 >>

DecayTable ==
  << << 2000000, 1414214, 1000000, 840896, 707107, 594604, 545254, 500000,
       458502, 420448, 408479, 385553, 353553, 343488, 324210, 297302,
       288838, 272627, 250000, 242883, 210224, 204239, 176777 >>,
     << 1986388, 1409393, 1000000, 842333, 709525, 597657, 548522, 503426,
       462038, 424053, 412098, 389190, 357194, 347124, 327828, 300876,
       292394, 276140, 253438, 246293, 213479, 207461, 179821 >>,
     << 1973261, 1404728, 1000000, 843731, 711882, 600636, 551713, 506775,
       465498, 427582, 415642, 392755, 360764, 350690, 331379, 304388,
       295888, 279595, 256821, 249650, 216688, 210637, 182826 >>,
     << 1960593, 1400212, 1000000, 845090, 714178, 603545, 554831, 510050,
       468883, 431038, 419115, 396248, 364266, 354190, 334866, 307838,
       299322, 282992, 260151, 252955, 219851, 213769, 185794 >>,
     << 1948359, 1395836, 1000000, 846414, 716416, 606385, 557879, 513252,
       472196, 434424, 422517, 399673, 367702, 357624, 338289, 311228,
       302698, 286333, 263428, 256208, 222969, 216858, 188724 >>,
     << 1936538, 1391595, 1000000, 847703, 718600, 609159, 560857, 516386,
       475440, 437741, 425851, 403032, 371074, 360995, 341651, 314561,
       306017, 289619, 266654, 259411, 226043, 219904, 191617 >>,
     << 1903347, 1379618, 1000000, 851374, 724838, 617108, 569406, 525390,
       484777, 447304, 435468, 412727, 380823, 370746, 351385, 324223,
       315644, 299160, 276035, 268731, 235009, 228790, 200081 >>,
     << 1892981, 1375856, 1000000, 852537, 726820, 619641, 572133, 528267,
       487765, 450368, 438550, 415838, 383955, 373881, 354517, 327336,
       318747, 302239, 279066, 271744, 237915, 231672, 202831 >>,
     << 1882935, 1372201, 1000000, 853672, 728756, 622119, 574803, 531086,
       490693, 453373, 441575, 418891, 387032, 376960, 357596, 330399,
       321800, 305270, 282052, 274712, 240780, 234514, 205547 >>,
     << 1873196, 1368647, 1000000, 854780, 730648, 624543, 577417, 533847,
       493564, 456322, 444543, 421889, 390054, 379986, 360622, 333411,
       324804, 308252, 284993, 277636, 243606, 237318, 208229 >>,
     << 1863749, 1365192, 1000000, 855861, 732498, 626916, 579977, 536553,
       496380, 459215, 447455, 424832, 393024, 382959, 363597, 336374,
       327760, 311189, 287889, 280517, 246393, 240084, 210878 >>,
     << 1854580, 1361830, 1000000, 856917, 734306, 629239, 582485, 539206,
       499141, 462054, 450315, 427723, 395942, 385882, 366523, 339289,
       330669, 314079, 290743, 283356, 249142, 242812, 213494 >>,
     << 1820458, 1349243, 1000000, 860904, 741156, 638064, 592028, 549312,
       509679, 472905, 461247, 438785, 407126, 397089, 377752, 350497,
       341856, 325208, 301744, 294305, 259773, 253369, 223639 >>,
     << 1812512, 1346296, 1000000, 861846, 742779, 640161, 594298, 551721,
       512194, 475498, 463860, 441432, 409806, 399776, 380447, 353190,
       344546, 327886, 304396, 296945, 262342, 255921, 226099 >>,
     << 1804780, 1343421, 1000000, 862768, 744368, 642217, 596525, 554084,
       514663, 478046, 466429, 444035, 412443, 402420, 383099, 355842,
       347195, 330525, 307009, 299549, 264878, 258441, 228528 >>,
     << 1797253, 1340617, 1000000, 863670, 745925, 644233, 598711, 556405,
       517088, 480550, 468953, 446593, 415036, 405021, 385709, 358454,
       349804, 333125, 309586, 302115, 267380, 260928, 230928 >>,
     << 1789924, 1337880, 1000000, 864552, 747451, 646211, 600855, 558683,
       519471, 483011, 471435, 449110, 417588, 407580, 388279, 361027,
       352375, 335687, 312127, 304646, 269850, 263383, 233299 >>,
     << 1782784, 1335209, 1000000, 865417, 748946, 648151, 602960, 560920,
       521812, 485430, 473875, 451585, 420099, 410100, 390809, 363561,
       354907, 338213, 314632, 307143, 272288, 265806, 235642 >>,
     << 1775827, 1332601, 1000000, 866263, 750412, 650054, 605027, 563118,
       524112, 487808, 476275, 454019, 422571, 412579, 393300, 366057,
       357402, 340701, 317102, 309604, 274694, 268199, 237957 >>,
     << 1769044, 1330054, 1000000, 867092, 751849, 651923, 607056, 565277,
       526374, 490147, 478635, 456414, 425003, 415021, 395754, 368517,
       359861, 343155, 319538, 312033, 277069, 270561, 240245 >>,
     << 1762429, 1327565, 1000000, 867905, 753259, 653757, 609049, 567399,
       528597, 492448, 480956, 458771, 427398, 417424, 398170, 370941,
       362285, 345574, 321941, 314428, 279414, 272894, 242505 >>,
     << 1755977, 1325133, 1000000, 868701, 754641, 655558, 611007, 569484,
       530782, 494711, 483240, 461091, 429756, 419791, 400550, 373329,
       364673, 347958, 324311, 316792, 281730, 275197, 244739 >>,
     << 1360276, 1166309, 1000000, 925962, 857406, 793925, 763970, 735145,
       707407, 680716, 672045, 655033, 630318, 622288, 606535, 583650,
       576215, 561629, 540438, 533554, 500425, 494051, 463375 >>,
     << 1304253, 1142039, 1000000, 935749, 875627, 819367, 792608, 766722,
       741682, 717460, 709563, 694028, 671362, 663973, 649437, 628227,
       621312, 607710, 587863, 581392, 550092, 544037, 514748 >> >>

IndexIn(seq, x) == CHOOSE i \in 1..Len(seq) : seq[i] = x

\* mutant of decay: a half-life of 96 hours instead of 48
decay_half_life_96(likes, age) ==
  DecayTable[IndexIn(DecayLikes, likes)][IndexIn(DecayHours, age \div 2)]

\* in millionths
decay(likes, age) == DecayTable[IndexIn(DecayLikes, likes)][IndexIn(DecayHours, age)]

(***************************************************************************)
(* round(decay * raw_score, 1), in tenths.  raw is in thousandths and d in *)
(* millionths, so the product is in 10^-9 and a tenth is 10^8 of them; the *)
(* product is formed in two parts to stay within 32-bit integers.  An      *)
(* exact decimal tie (…5 followed by zeros) is decided in the code by the  *)
(* binary rounding error of the float product, which exact arithmetic does *)
(* not determine: up says which way ties fall.                             *)
(***************************************************************************)
RoundTenthsAbs(raw, d, up) ==
  LET y    == raw * (d \div 1000) + (raw * (d % 1000)) \div 1000
      rest == (raw * (d % 1000)) % 1000
      q    == y \div 100000
      r    == y % 100000
  IN  IF r > 50000 \/ (r = 50000 /\ rest > 0) THEN q + 1
      ELSE IF r = 50000 /\ rest = 0 THEN (IF up THEN q + 1 ELSE q)
      ELSE q

RoundTenths(raw, d, up) ==
  IF raw >= 0 THEN RoundTenthsAbs(raw, d, up) ELSE -RoundTenthsAbs(-raw, d, up)

\* the returned score, in tenths; t is datetime.now()
calculate_post_score(p, t, up) ==
  LET final_decay == decay(p.likes, hours_old(p, t))
  IN  RoundTenths(raw_score(p), final_decay, up)

(***************************************************************************)
(* Harness for the two extractors: a text is typed, then each extractor is *)
(* called on it.  Texts are concatenations of at most MaxChunks pieces.    *)
(***************************************************************************)
MaxChunks == 3

Chunks ==
  { <<"m", "u", "s", "t", " ", "w", "a", "t", "c", "h", " ">>,
    <<"w", "a", "t", "c", "h">>,
    <<"b", "a", "k", "w", "a", "s", " ", "m", "o", "v", "i", "e", " ">>,
    <<"F", "i", "l", "m", " ", "P", "l", "o", "t", " ">>,
    <<"z", "z", " ">>,
    <<"U+2764", "U+FE0F">>,
    <<"U+1F525">>,
    <<"U+1F44C">>,
    <<"U+1F92E">>,
    <<"U+1F44F">> }

ChunkSeqs == UNION { [1..n -> Chunks] : n \in 0..MaxChunks }

Texts == { Concat(cs) : cs \in ChunkSeqs }

\* an output cell: empty before the call, <<value>> after it
NotCalled == <<>>

NoOp == [kind |-> "none", from |-> 0]

TextIdleScore == /\ post = <<>> /\ clock = 0 /\ tie_up = FALSE
                 /\ score_out = NotCalled /\ prev_score = NotCalled /\ last_op = NoOp

NoEvent == [kind |-> "none", via |-> "none", position |-> 0, target |-> 0, seen |-> 0]

TextIdleApp == /\ posts = <<>> /\ now = 0 /\ sort_option = "Hot (Score)"
               /\ filter_option = {} /\ shown = <<>> /\ events = 0
               /\ run = "idle" /\ last_event = NoEvent

TextInit ==
  /\ text \in Texts
  /\ emoji_out = NotCalled
  /\ relevance_out = NotCalled
  /\ TextIdleScore
  /\ TextIdleApp

CallEmoji ==
  /\ emoji_out = NotCalled
  /\ emoji_out' = <<calculate_emoji_sentiment(text)>>
  /\ UNCHANGED <<text, relevance_out, score_vars, app_vars>>

CallRelevance ==
  /\ relevance_out = NotCalled
  /\ relevance_out' = <<check_movie_relevance(text)>>
  /\ UNCHANGED <<text, emoji_out, score_vars, app_vars>>

TextNext == CallEmoji \/ CallRelevance

SpecText == TextInit /\ [][TextNext]_vars

(***************************************************************************)
(* Harness for calculate_post_score: a post and a clock reading are        *)
(* chosen, the post is scored, and then likes, comments or the clock move  *)
(* up and the post is scored again (everything else held fixed).           *)
(***************************************************************************)
PolarityVals == {-10, 0, 10}
LikesVals    == {0, 1, 12, 250, 400}
CommentsVals == {0, 1, 30, 31}
AuthorVals   == { <<0, 0, 0>>, <<123, 111, 2>>, <<100, 100, 5>> }
MediaVals    == {0, 2, 4}
ClockVals    == {-48, 0, 24, 48, 96}

NewPost(txt, pol, l, c, a, m, created) ==
  [ text |-> txt, polarity |-> pol, likes |-> l, comments |-> c,
    author_content_watched |-> a[1], author_reviews_posted |-> a[2],
    author_public_watchlists |-> a[3], media_count |-> m, created_at |-> created ]

\* TextBlob gives the empty text polarity 0.0
ScorePosts ==
  { NewPost(txt, pol, l, c, a, m, 0) :
      txt \in ScoreTexts, pol \in PolarityVals, l \in LikesVals,
      c \in CommentsVals, a \in AuthorVals, m \in MediaVals }
  \ { q \in [ text : {<<>>}, polarity : PolarityVals \ {0}, likes : LikesVals,
              comments : CommentsVals, author_content_watched : {0, 123, 100},
              author_reviews_posted : {0, 111, 100},
              author_public_watchlists : {0, 2, 5},
              media_count : MediaVals, created_at : {0} ] : TRUE }

ScoreIdleText == /\ text = <<>> /\ emoji_out = NotCalled /\ relevance_out = NotCalled

ScoreInit ==
  /\ post \in ScorePosts
  /\ clock \in ClockVals
  /\ tie_up \in BOOLEAN
  /\ score_out = NotCalled
  /\ prev_score = NotCalled
  /\ last_op = NoOp
  /\ ScoreIdleText
  /\ TextIdleApp

Score ==
  /\ score_out = NotCalled
  /\ score_out' = <<calculate_post_score(post, clock, tie_up)>>
  /\ last_op' = [kind |-> "score", from |-> 0]
  /\ UNCHANGED <<post, clock, tie_up, prev_score, text_vars, app_vars>>

MoreLikes ==
  /\ score_out # NotCalled
  /\ \E l \in LikesVals :
       /\ l > post.likes
       /\ post' = [post EXCEPT !.likes = l]
  /\ prev_score' = score_out
  /\ score_out' = <<calculate_post_score(post', clock, tie_up)>>
  /\ last_op' = [kind |-> "likes", from |-> post.likes]
  /\ UNCHANGED <<clock, tie_up, text_vars, app_vars>>

MoreComments ==
  /\ score_out # NotCalled
  /\ \E c \in CommentsVals :
       /\ c > post.comments
       /\ post' = [post EXCEPT !.comments = c]
  /\ prev_score' = score_out
  /\ score_out' = <<calculate_post_score(post', clock, tie_up)>>
  /\ last_op' = [kind |-> "comments", from |-> post.comments]
  /\ UNCHANGED <<clock, tie_up, text_vars, app_vars>>

Age ==
  /\ score_out # NotCalled
  /\ \E h \in ClockVals :
       /\ h > clock
       /\ clock' = h
  /\ prev_score' = score_out
  /\ score_out' = <<calculate_post_score(post, clock', tie_up)>>
  /\ last_op' = [kind |-> "age", from |-> clock]
  /\ UNCHANGED <<post, tie_up, text_vars, app_vars>>

ScoreNext == Score \/ MoreLikes \/ MoreComments \/ Age

SpecScore == ScoreInit /\ [][ScoreNext]_vars

(***************************************************************************)
(* The Streamlit session.  st.session_state.posts is the list posts; posts *)
(* are never removed or reordered, so a post is identified by its index.   *)
(* Every UI event re-runs the script top to bottom at the current clock;   *)
(* shown is the list display_posts rendered in the last run (indices into  *)
(* posts), i.e. what the like_{i} / comment_{i} buttons on screen stand    *)
(* beside.  run = "rerun" after a handler called st.rerun().               *)
(***************************************************************************)
MaxEvents == 3

\* TextBlob's polarity for the four sample texts (tenths): a library result,
\* an input of the model ("Best" 1.0, "much" 0.2, no rated word 0.0, "weak" -0.4)
SamplePolarities == { <<10, 2, 0, -4>> }

sample_posts(pol) ==
  << NewPost(SampleText1, pol[1], 21, 6, <<123, 111, 2>>, 2, 0 - 72),
     NewPost(SampleText2, pol[2], 9, 2, <<234, 189, 3>>, 1, 0 - 62),
     NewPost(SampleText3, pol[3], 17, 3, <<321, 313, 5>>, 3, 0 - 12),
     NewPost(SampleText4, pol[4], 8, 1, <<79, 77, 2>>, 0, 0 - 42) >>

SortOptions == {"Hot (Score)", "Newest", "Oldest", "Most Liked", "Most Comments"}
FilterOptions == {"With Media", "High Engagement", "Recent (24h)"}

\* the sidebar form as filled in when Submit Post is pressed: the defaults,
\* and two other fillings (the polarity is TextBlob's for that text)
FormInputs ==
  { [text |-> <<>>, polarity |-> 0, media_count |-> 1, watched |-> 0,
     reviews |-> 0, watchlists |-> 0],
    [text |-> <<"z", "z", " ">>, polarity |-> 0, media_count |-> 4, watched |-> 5000,
     reviews |-> 5000, watchlists |-> 500],
    [text |-> <<"z", "z", " ">>, polarity |-> 0, media_count |-> 0, watched |-> 0,
     reviews |-> 0, watchlists |-> 0] }

\* the list of (references to) the posts that pass the chosen filters
filter_posts(ps, filters, t) ==
  LET Keep(k) ==
        /\ ("With Media" \in filters => ps[k].media_count > 0)
        /\ ("High Engagement" \in filters => (ps[k].likes > 100 \/ ps[k].comments > 5))
        /\ ("Recent (24h)" \in filters => ps[k].created_at > t - 24)
  IN  SelectSeq([k \in 1..Len(ps) |-> k], Keep)

\* sorted(..., key=..., reverse=...): stable, equal keys keep their order
\* (also under reverse=True).  keys[a] is the key of idxs[a]; larger first:
\* each element goes behind the ones already placed whose key is not smaller.
RECURSIVE SortedPositions(_, _)
SortedPositions(keys, n) ==
  IF n = 0 THEN <<>>
  ELSE LET sq    == SortedPositions(keys, n - 1)
           ahead == Cardinality({ j \in 1..Len(sq) : keys[sq[j]] >= keys[n] })
       IN  SubSeq(sq, 1, ahead) \o <<n>> \o SubSeq(sq, ahead + 1, Len(sq))

RECURSIVE Pick(_, _, _)
Pick(idxs, positions, r) ==
  IF r = 0 THEN <<>> ELSE Append(Pick(idxs, positions, r - 1), idxs[positions[r]])

StableSortDescending(idxs, keys) ==
  Pick(idxs, SortedPositions(keys, Len(idxs)), Len(idxs))

SortKey(p, option, t, up) ==
  CASE option = "Hot (Score)"   -> calculate_post_score(p, t, up)
    [] option = "Newest"        -> p.created_at
    [] option = "Oldest"        -> 0 - p.created_at
    [] option = "Most Liked"    -> p.likes
    [] option = "Most Comments" -> p.comments

\* each key is computed once, as sorted() does
RECURSIVE SortKeys(_, _, _, _, _, _)
SortKeys(ps, idxs, n, option, t, up) ==
  IF n = 0 THEN <<>>
  ELSE Append(SortKeys(ps, idxs, n - 1, option, t, up), SortKey(ps[idxs[n]], option, t, up))

sort_posts(ps, idxs, option, t, up) ==
  StableSortDescending(idxs, SortKeys(ps, idxs, Len(idxs), option, t, up))

\* sorted_posts of one run
Rendered(ps, filters, option, t, up) ==
  sort_posts(ps, filter_posts(ps, filters, t), option, t, up)

\* mutant of PostAfterScore: media_count normalised in place
PostAfterScoreNormalised(p, t) ==
  [p EXCEPT !.media_count = Ratio(p.media_count, MEDIA_NORM)]

\* the post dict as calculate_post_score(post) leaves it: the function only
\* reads post[...] and never assigns to it
PostAfterScore(p, t) == p

\* the collection after the posts in scored were each passed to calculate_post_score
RECURSIVE ScoreEach(_, _, _, _)
ScoreEach(ps, n, scored, t) ==
  IF n = 0 THEN <<>>
  ELSE Append(ScoreEach(ps, n - 1, scored, t),
              IF n \in scored THEN PostAfterScore(ps[n], t) ELSE ps[n])

AfterScoring(ps, scored, t) == ScoreEach(ps, Len(ps), scored, t)

AllOf(ps) == 1..Len(ps)

\* mutant of LikePost: the handler adds 2
LikePostTwice(ps, k) == [ps EXCEPT ![k].likes = @ + 2]

\* post["likes"] += 1
LikePost(ps, k) == [ps EXCEPT ![k].likes = @ + 1]

\* post["comments"] += 1
CommentPost(ps, k) == [ps EXCEPT ![k].comments = @ + 1]

Handle(kind, ps, k) == IF kind = "like" THEN LikePost(ps, k) ELSE CommentPost(ps, k)

Event(kind, via, position, target, seen) ==
  [kind |-> kind, via |-> via, position |-> position, target |-> target, seen |-> seen]

AppIdleText == /\ text = <<>> /\ emoji_out = NotCalled /\ relevance_out = NotCalled

AppIdleScore == /\ post = <<>> /\ clock = 0 /\ score_out = NotCalled
                /\ prev_score = NotCalled /\ last_op = NoOp

\* the session after the first run: the CSV is not there, the four hardcoded
\* samples are loaded, "Hot (Score)" and no filter are selected
Init ==
  /\ tie_up \in BOOLEAN
  /\ \E pol \in SamplePolarities : posts = sample_posts(pol)
  /\ now = 0
  /\ sort_option = "Hot (Score)"
  /\ filter_option = {}
  /\ shown = Rendered(posts, filter_option, sort_option, now, tie_up)
  /\ events = 0
  /\ run = "idle"
  /\ last_event = NoEvent
  /\ AppIdleText
  /\ AppIdleScore

UserCanAct == run = "idle" /\ events < MaxEvents

\* twelve hours pass while the page is on screen
Tick ==
  /\ UserCanAct
  /\ now' = now + 12
  /\ events' = events + 1
  /\ last_event' = Event("tick", "none", 0, 0, 0)
  /\ UNCHANGED <<posts, sort_option, filter_option, shown, run, text_vars, score_vars>>

\* a run in which no button is pressed: every post is scored (sort key,
\* expander title, progress bar, average, tab1, tab2), none is assigned to
PlainRun(filters, option) ==
  /\ shown' = Rendered(posts, filters, option, now, tie_up)
  /\ posts' = AfterScoring(posts, AllOf(posts), now)
  /\ run' = "idle"

SelectSort ==
  /\ UserCanAct
  /\ \E o \in SortOptions \ {sort_option} :
       /\ sort_option' = o
       /\ PlainRun(filter_option, o)
  /\ events' = events + 1
  /\ last_event' = Event("select", "none", 0, 0, 0)
  /\ UNCHANGED <<now, filter_option, text_vars, score_vars>>

SelectFilter ==
  /\ UserCanAct
  /\ \E f \in FilterOptions :
       /\ filter_option' = IF f \in filter_option THEN filter_option \ {f}
                                                   ELSE filter_option \cup {f}
       /\ PlainRun(filter_option', sort_option)
  /\ events' = events + 1
  /\ last_event' = Event("select", "none", 0, 0, 0)
  /\ UNCHANGED <<now, sort_option, text_vars, score_vars>>

\* The user presses like_{i-1} or comment_{i-1} beside the i-th post on screen.
\* The script re-runs: the list is filtered and sorted again at the current
\* clock, and the button with that key, if the loop creates it, returns True;
\* its post is incremented and st.rerun() ends the run.
ClickDisplay(kind) ==
  /\ UserCanAct
  /\ LET sorted_posts == Rendered(posts, filter_option, sort_option, now, tie_up)
         \* the posts scored before the pressed button is reached: the sort
         \* keys under "Hot (Score)", and the expander titles up to position i
         ScoredBefore(i) == { sorted_posts[j] : j \in 1..Min(i, Len(sorted_posts)) }
                      \cup (IF sort_option = "Hot (Score)"
                            THEN { sorted_posts[j] : j \in 1..Len(sorted_posts) } ELSE {})
     IN  \E i \in 1..Len(shown) :
           IF i <= Len(sorted_posts)
           THEN /\ posts' = Handle(kind, AfterScoring(posts, ScoredBefore(i), now), sorted_posts[i])
                /\ run' = "rerun"
                /\ shown' = shown
                /\ last_event' = Event(kind, "display", i, sorted_posts[i], shown[i])
           ELSE /\ posts' = AfterScoring(posts, AllOf(posts), now)
                /\ run' = "idle"
                /\ shown' = sorted_posts
                /\ last_event' = Event("lost", "display", i, 0, shown[i])
  /\ events' = events + 1
  /\ UNCHANGED <<now, sort_option, filter_option, text_vars, score_vars>>

LikeDisplay == ClickDisplay("like")

CommentDisplay == ClickDisplay("comment")

\* The user presses a tab1 button; its key holds the post's index and
\* created_at, and tab1 lists every post of the session.
ClickTab1(kind) ==
  /\ UserCanAct
  /\ \E k \in 1..Len(posts) :
       /\ posts' = Handle(kind, AfterScoring(posts, AllOf(posts), now), k)
       /\ last_event' = Event(kind, "tab1", k, k, k)
  /\ shown' = Rendered(posts, filter_option, sort_option, now, tie_up)
  /\ run' = "rerun"
  /\ events' = events + 1
  /\ UNCHANGED <<now, sort_option, filter_option, text_vars, score_vars>>

LikeTab1 == ClickTab1("like")

CommentTab1 == ClickTab1("comment")

\* Submit Post: display_posts has already rendered the list without the new
\* post; the post is appended and shows in tab1 and tab2; there is no rerun.
SubmitPost ==
  /\ UserCanAct
  /\ \E f \in FormInputs :
       LET new_post == NewPost(f.text, f.polarity, 0, 0,
                               <<f.watched, f.reviews, f.watchlists>>, f.media_count, now)
           appended == Append(AfterScoring(posts, AllOf(posts), now), new_post)
       IN  posts' = AfterScoring(appended, AllOf(appended), now)
  /\ shown' = Rendered(posts, filter_option, sort_option, now, tie_up)
  /\ run' = "idle"
  /\ events' = events + 1
  /\ last_event' = Event("submit", "none", 0, Len(posts) + 1, 0)
  /\ UNCHANGED <<now, sort_option, filter_option, text_vars, score_vars>>

\* the run started by st.rerun()
Rerun ==
  /\ run = "rerun"
  /\ PlainRun(filter_option, sort_option)
  /\ last_event' = Event("rerun", "none", 0, 0, 0)
  /\ UNCHANGED <<now, sort_option, filter_option, events, text_vars, score_vars>>

Next ==
  \/ Tick \/ SelectSort \/ SelectFilter
  \/ LikeDisplay \/ CommentDisplay \/ LikeTab1 \/ CommentTab1
  \/ SubmitPost \/ Rerun

Spec == Init /\ [][Next]_vars

(***************************************************************************)
(* Reference counts used to state the claims about the extractors          *)
(***************************************************************************)
\* the offsets at which needle starts in hay
OccurrencesAt(needle, hay) ==
  { i \in 0..(Len(hay) - Len(needle)) : \A k \in 1..Len(needle) : hay[i + k] = needle[k] }

ListEntries == { english_terms[i] : i \in 1..Len(english_terms) }
               \cup { hinglish_phrases[i] : i \in 1..Len(hinglish_phrases) }

RECURSIVE SumOver(_, _)
SumOver(S, t) ==
  IF S = {} THEN 0
  ELSE LET e == CHOOSE x \in S : TRUE
       IN  Cardinality(OccurrencesAt(e, t)) + SumOver(S \ {e}, t)

\* every substring occurrence of every list entry
TotalOccurrences(t) == SumOver(ListEntries, lower(t))

\* the list entries that occur at least once
EntriesPresent(t) == { e \in ListEntries : OccurrencesAt(e, lower(t)) # {} }

\* C1 as stated: the score counts every occurrence of every entry.
C1_CountsEveryOccurrence ==
  relevance_out # NotCalled =>
    relevance_out[1] = Min(100, 20 + 15 * TotalOccurrences(text))

\* C1 amended: check_movie_relevance returns min(1.0, 0.2 + 0.15 * N) where N is
\* the number of list entries that occur at least once in the lower-cased text;
\* an entry contained in another ("watch" in "must watch") counts beside it,
\* a second occurrence of the same entry adds nothing.
C1_CountsEntriesPresent ==
  relevance_out # NotCalled =>
    relevance_out[1] = Min(100, 20 + 15 * Cardinality(EntriesPresent(text)))

\* "must watch watch": two entries present, three occurrences, score 0.5
C1_Witness ==
  /\ relevance_out = <<50>>
  /\ Cardinality(EntriesPresent(text)) = 2
  /\ TotalOccurrences(text) = 3

(***************************************************************************)
(* Claims about calculate_post_score (checked under SpecScore)             *)
(***************************************************************************)
Scored == score_out # NotCalled

\* C2 as stated: for a well-formed post scored at or after its creation, the
\* returned score lies in [0, 100] (tenths: 0..1000), the raw score in [0, 100].
C2_ScoreWithin0And100 ==
  (Scored /\ hours_old(post, clock) >= 0) =>
    /\ 0 <= score_out[1] /\ score_out[1] <= 1000
    /\ 0 <= raw_score(post) /\ raw_score(post) <= 100000

Compared == Scored /\ prev_score # NotCalled

\* C3 as stated: with everything else fixed, more likes or more comments never
\* lower the score, also for a post dated in the future (hours_old < 0).
C3_MonotoneInLikesAndComments ==
  (Compared /\ last_op.kind \in {"likes", "comments"}) => prev_score[1] <= score_out[1]

\* C3 amended: more comments never lower the score, whatever hours_old is; more
\* likes never lower it when hours_old >= 0, also when the raw score is negative.
C3_MonotoneWhenNotFutureDated ==
  /\ (Compared /\ last_op.kind = "comments") => prev_score[1] <= score_out[1]
  /\ (Compared /\ last_op.kind = "likes" /\ hours_old(post, clock) >= 0)
       => prev_score[1] <= score_out[1]

\* likes went up on an aged post with a negative raw score and the score rose
C3_Witness ==
  /\ Compared /\ last_op.kind = "likes"
  /\ hours_old(post, clock) > 0
  /\ raw_score([post EXCEPT !.likes = last_op.from]) < 0
  /\ prev_score[1] < score_out[1]

\* C4 as stated: with everything else fixed, a later evaluation time never
\* gives a higher score.
C4_NonIncreasingInHoursOld ==
  (Compared /\ last_op.kind = "age") => score_out[1] <= prev_score[1]

IsEmptyPost(q) ==
  /\ q.text = <<>> /\ q.polarity = 0 /\ q.likes = 0 /\ q.comments = 0
  /\ q.author_content_watched = 0 /\ q.author_reviews_posted = 0
  /\ q.author_public_watchlists = 0 /\ q.media_count = 0

\* C5 as stated: the empty post at age 0 has decay 1, engagement 0, author 0,
\* content 0.37, raw score 11.1 and score 11.1.
C5_EmptyPostScores111 ==
  (Scored /\ IsEmptyPost(post) /\ hours_old(post, clock) = 0) =>
    /\ decay(post.likes, 0) = 1000000
    /\ engagement(post) = 0
    /\ author(post) = 0
    /\ content(post) = 55500
    /\ raw_score(post) = 11100
    /\ score_out[1] = 111

\* C5 amended: the empty post at age 0 has decay 1, engagement 0, author 0,
\* content 0.265 (= 0.7 * (0.7 * 0.5 + 0.3 * 0) + 0.1 * 0.2), raw score 7.95 and
\* the score is 7.95 rounded to one decimal: 7.9 or 8.0.
C5_EmptyPostScores795 ==
  (Scored /\ IsEmptyPost(post) /\ hours_old(post, clock) = 0) =>
    /\ decay(post.likes, 0) = 1000000
    /\ engagement(post) = 0
    /\ author(post) = 0
    /\ content(post) = 39750
    /\ raw_score(post) = 7950
    /\ score_out[1] \in {79, 80}

C5_Witness ==
  Scored /\ IsEmptyPost(post) /\ hours_old(post, clock) = 0 /\ last_op.kind = "score"

QuarterCase ==
  /\ Compared /\ last_op = [kind |-> "age", from |-> 0]
  /\ hours_old(post, clock) = 96 /\ post.likes = 0

\* C6 as stated: with likes = 0 the value returned at 96 hours is exactly one
\* quarter of the value returned at 0 hours.
C6_ExactQuarterAt96 == QuarterCase => 4 * score_out[1] = prev_score[1]

\* C6 amended: with likes = 0 the decay at 96 hours is exactly 1/4 of the decay at
\* 0 hours, so the unrounded score is exactly quartered; the returned values,
\* each rounded to one decimal, satisfy |score(96h) - score(0h) / 4| <= 0.0625
\* (in tenths: |4 * s96 - s0| <= 2).
C6_QuarterUpToRounding ==
  QuarterCase =>
    /\ 4 * decay(0, 96) = decay(0, 0)
    /\ 4 * score_out[1] - prev_score[1] \in -2..2

\* the empty post: 7.9 or 8.0 at 0 hours, 2.0 at 96 hours
C6_Witness == QuarterCase /\ 4 * score_out[1] # prev_score[1]

\* the summed weight of every occurrence of every glyph of the weight mapping
GlyphSum(t) ==
  SumSeq([i \in 1..Len(emoji_sentiment_map) |->
            emoji_sentiment_map[i][2]
            * Cardinality(OccurrencesAt(emoji_sentiment_map[i][1], t))])

\* C7 as stated: calculate_emoji_sentiment returns the clamped sum of the mapped
\* weights of every occurrence of every glyph of the mapping, the heart (two
\* code points) included; a text without mapped glyphs yields 0.
C7_SumsEveryMappedGlyph ==
  emoji_out # NotCalled => emoji_out[1] = Max(-5, Min(5, GlyphSum(text)))

(***************************************************************************)
(* Claims about the Streamlit session                                      *)
(***************************************************************************)
\* C8: calculate_post_score and the extractors never mutate their input.  In a
\* run without a handler (a selection, the run after st.rerun(), a click whose
\* button is gone) the whole collection is as before the run although every
\* post was scored for the sort, the titles, the average and the table; in a
\* run with a handler the only difference is the handler's own increment; a
\* submit leaves the existing posts as they were.
C8_ScoringLeavesPostsAsTheyWere ==
  [][ /\ last_event'.kind \in {"select", "rerun", "lost", "tick"} => posts' = posts
      /\ last_event'.kind = "like" => posts' = LikePost(posts, last_event'.target)
      /\ last_event'.kind = "comment" => posts' = CommentPost(posts, last_event'.target)
      /\ last_event'.kind = "submit" =>
           /\ Len(posts') = Len(posts) + 1
           /\ SubSeq(posts', 1, Len(posts)) = posts ]_vars

\* the run after st.rerun() scored a collection holding a submitted post:
\* as sort keys under "Hot (Score)" and once more for each of the displays
C8_Witness ==
  /\ last_event.kind = "rerun"
  /\ sort_option = "Hot (Score)"
  /\ Len(posts) > 4
  /\ Len(shown) = Len(posts)

Immutable(p) ==
  <<p.text, p.created_at, p.media_count, p.author_content_watched,
    p.author_reviews_posted, p.author_public_watchlists>>

\* C9: a submitted post starts with likes = 0 and comments = 0 and media_count
\* in 0..4; a Like (Comment) event adds exactly 1 to the likes (comments) of
\* exactly one post and changes nothing else; no counter ever decreases; text,
\* created_at, media_count and the author counters of an existing post never
\* change; no post is removed.
C9_CountersStepByOne ==
  [][ /\ Len(posts') >= Len(posts)
      /\ \A k \in (Len(posts) + 1)..Len(posts') :
           /\ posts'[k].likes = 0
           /\ posts'[k].comments = 0
           /\ posts'[k].media_count \in 0..4
      /\ \A k \in 1..Len(posts) :
           /\ posts'[k].likes >= posts[k].likes
           /\ posts'[k].comments >= posts[k].comments
           /\ Immutable(posts'[k]) = Immutable(posts[k])
      /\ last_event'.kind = "like" =>
           \E k \in 1..Len(posts) : posts' = [posts EXCEPT ![k].likes = @ + 1]
      /\ last_event'.kind = "comment" =>
           \E k \in 1..Len(posts) : posts' = [posts EXCEPT ![k].comments = @ + 1]
      /\ last_event'.kind \notin {"like", "comment"} =>
           \A k \in 1..Len(posts) : /\ posts'[k].likes = posts[k].likes
                                    /\ posts'[k].comments = posts[k].comments ]_vars

\* a post created by Submit has since been liked and commented on
C9_Witness ==
  \E k \in 5..Len(posts) : /\ posts[k].likes >= 1
                           /\ posts[k].comments >= 1

\* C10 as stated: a click on like_{i} / comment_{i} is applied to the post that
\* was on screen at position i when the click was made.
C10_ClickReachesThePostSeen ==
  last_event.via = "display" => last_event.target = last_event.seen

================================================================================
